---- MODULE Spec2Model ----
(***************************************************************************)
(* Model of the three views of the repository: the metadata search view   *)
(* (src/unnamed/part_000: facet selections, the derived hasFilters flag,   *)
(* performSearch with its outstanding searchChatsByMetadata calls,         *)
(* clearFilters, the mount-time statistics load), the summary modal        *)
(* (ChatSummaryModal.svelte) and the mistake-book view                     *)
(* (src/unnamed/part_001).                                                 *)
(*                                                                         *)
(* Execution is single threaded and event driven: every action below is    *)
(* one event-loop task, either a user event handler run to its first       *)
(* await, or the settlement of a provider promise together with the        *)
(* continuation of the handler that awaits it.                             *)
(*                                                                         *)
(* The three show...Dropdown flags are presentation state that no handler  *)
(* reads; they are left out.                                               *)
(***************************************************************************)
EXTENDS Integers, Sequences, FiniteSets, TLC

VARIABLES statistics, statsCall, searchResults, loading, searchPerformed,
          selectedSubject, selectedKnowledgePoints, selectedTags,
          calls, results, toast, provider

(* The summary modal (ChatSummaryModal.svelte); its loading and its        *)
(* outstanding calls carry the prefix modal, the names being taken by the  *)
(* search view.  Its toasts are output only and are not kept.              *)
VARIABLES show, chatId, existingSummary, modalLoading, summaryData,
          newKnowledgePoint, newTag, modalCalls, updated

searchVars == <<statistics, statsCall, searchResults, loading,
                searchPerformed, selectedSubject, selectedKnowledgePoints,
                selectedTags, calls, results, toast, provider>>

modalVars == <<show, chatId, existingSummary, modalLoading, summaryData,
               newKnowledgePoint, newTag, modalCalls, updated>>

(* The mistake-book view (src/unnamed/part_001), its loading prefixed;     *)
(* serverMistakes is the backend's mistake book, newest the outcome of the *)
(* loadData call issued last, kept for comparison.                         *)
VARIABLES mistakeChats, subjectStats, mistakeLoading, mounted, toggles,
          loads, issued, serverMistakes, newest

mistakeVars == <<mistakeChats, subjectStats, mistakeLoading, mounted,
                 toggles, loads, issued, serverMistakes, newest>>

vars == <<searchVars, modalVars, mistakeVars>>

facets == <<selectedSubject, selectedKnowledgePoints, selectedTags>>

(* Cap on the number of searchChatsByMetadata calls in flight at once;    *)
(* the code has no such limit of its own, only the disabled button.        *)
MaxOutstanding == 2

(***************************************************************************)
(* What the providers can answer.                                          *)
(***************************************************************************)
StatsResponse ==
    [subjects |-> <<"Math">>,
     knowledge_points |-> <<"Algebra", "Geometry">>,
     tags |-> <<"exam">>,
     total_chats |-> 2]

KnownKnowledgePoints == {"Algebra", "Geometry"}
KnownTags == {"exam"}

Chat1 == [id |-> "c1", updated_at |-> 1700000000]
Chat2 == [id |-> "c2", updated_at |-> 1700259200]

SearchResponses == {<<>>, <<Chat1>>, <<Chat2, Chat1>>}

(* The search provider is injected: one that answers or fails call by      *)
(* call, and one that fails every call.                                    *)
SearchProviders == {"responds", "alwaysRejects"}

(***************************************************************************)
(* Helpers for JavaScript arrays and values.                               *)
(***************************************************************************)
Range(s) == {s[i] : i \in 1..Len(s)}

includes(s, v) == \E i \in 1..Len(s) : s[i] = v

filterNot(s, v) == SelectSeq(s, LAMBDA item : item # v)

NoDuplicates(s) == \A i, j \in 1..Len(s) : s[i] = s[j] => i = j

(* The value of a JavaScript || chain is a string or a boolean. *)
JsString(s) == [t |-> "string", s |-> s, b |-> FALSE]
JsBoolean(b) == [t |-> "boolean", s |-> "", b |-> b]
Truthy(x) == IF x.t = "string" THEN x.s # "" ELSE x.b
JsOr(x, y) == IF Truthy(x) THEN x ELSE y

(* getTimeRange of $lib/utils: timestamp -> relative range text. *)
getTimeRange(timestamp) ==
    LET days == (1700259200 - timestamp) \div 86400
    IN  IF days <= 0 THEN "today" ELSE ToString(days) \o " days ago"

(* chat => ({ ...chat, time_range: getTimeRange(chat.updated_at) }) *)
annotate(chat) ==
    [k \in DOMAIN chat \cup {"time_range"} |->
        IF k = "time_range" THEN getTimeRange(chat.updated_at) ELSE chat[k]]

(* The map written as an in-place update of the response's records. *)
mapResults_InPlace(rs) ==
    [out |-> [i \in 1..Len(rs) |-> annotate(rs[i])],
     arg |-> [i \in 1..Len(rs) |-> annotate(rs[i])]]

(* results.map(annotate): a new array; the argument array is what the      *)
(* second component says it is once the map has run.                       *)
mapResults(rs) ==
    [out |-> [i \in 1..Len(rs) |-> annotate(rs[i])], arg |-> rs]

(***************************************************************************)
(* Derived state.                                                          *)
(***************************************************************************)
(* hasFilters with the tags term left out. *)
hasFilters_NoTags ==
    JsOr(JsString(selectedSubject),
         JsBoolean(Len(selectedKnowledgePoints) > 0))

hasFilters ==
    JsOr(JsString(selectedSubject),
         JsOr(JsBoolean(Len(selectedKnowledgePoints) > 0),
              JsBoolean(Len(selectedTags) > 0)))

EmptyFilters == [k \in {} |-> ""]

(* buildFilters that sends tags even when none is selected. *)
buildFilters_EmptyTags(subject, kps, tags) ==
    LET f0 == EmptyFilters
        f1 == IF subject # "" THEN f0 @@ ("subject" :> subject) ELSE f0
        f2 == IF Len(kps) > 0 THEN f1 @@ ("knowledge_points" :> kps) ELSE f1
    IN  f2 @@ ("tags" :> tags)

(* The filters object performSearch builds, lines 63-75. *)
buildFilters(subject, kps, tags) ==
    LET f0 == EmptyFilters
        f1 == IF subject # "" THEN f0 @@ ("subject" :> subject) ELSE f0
        f2 == IF Len(kps) > 0 THEN f1 @@ ("knowledge_points" :> kps) ELSE f1
        f3 == IF Len(tags) > 0 THEN f2 @@ ("tags" :> tags) ELSE f2
    IN  f3

filters == buildFilters(selectedSubject, selectedKnowledgePoints, selectedTags)

(* The view's state as a record, kept with a call to compare against. *)
viewState ==
    [searchResults |-> searchResults, searchPerformed |-> searchPerformed,
     loading |-> loading, selectedSubject |-> selectedSubject,
     selectedKnowledgePoints |-> selectedKnowledgePoints,
     selectedTags |-> selectedTags]

NoToast == [type |-> "none", message |-> ""]
Toast(type, message) == [type |-> type, message |-> message]

(* A user action between the issue of a call and its completion. *)
touched == [i \in 1..Len(calls) |-> [calls[i] EXCEPT !.userActed = TRUE]]

(***************************************************************************)
(* Initial state: the component's script has run, onMount has not.         *)
(***************************************************************************)
SearchInit ==
    /\ statistics = [subjects |-> <<>>, knowledge_points |-> <<>>,
                     tags |-> <<>>, total_chats |-> 0]
    /\ statsCall = "none"
    /\ searchResults = <<>>
    /\ loading = FALSE
    /\ searchPerformed = FALSE
    /\ selectedSubject = ""
    /\ selectedKnowledgePoints = <<>>
    /\ selectedTags = <<>>
    /\ calls = <<>>
    /\ results = <<>>
    /\ toast = NoToast
    /\ provider \in SearchProviders

(***************************************************************************)
(* Statistics: onMount -> loadStatistics.                                  *)
(***************************************************************************)
onMount ==
    /\ statsCall = "none"
    /\ statsCall' = "pending"
    /\ UNCHANGED <<provider, statistics, searchResults, loading, searchPerformed,
                   facets, calls, results, toast>>

loadStatisticsResolved ==
    /\ statsCall = "pending"
    /\ statsCall' = "done"
    /\ statistics' = StatsResponse
    /\ UNCHANGED <<provider, searchResults, loading, searchPerformed, facets, calls,
                   results, toast>>

loadStatisticsRejected ==
    /\ statsCall = "pending"
    /\ statsCall' = "done"
    /\ toast' = Toast("error", "loading statistics failed")
    /\ UNCHANGED <<provider, statistics, searchResults, loading, searchPerformed,
                   facets, calls, results>>

(***************************************************************************)
(* Facet handlers.                                                         *)
(***************************************************************************)
selectSubject(subject) ==
    /\ selectedSubject' = subject
    /\ calls' = touched
    /\ UNCHANGED <<provider, statistics, statsCall, searchResults, loading,
                   searchPerformed, selectedKnowledgePoints, selectedTags,
                   results, toast>>

(* addKnowledgePoint without the includes test. *)
addKnowledgePoint_NoIncludes(kp) ==
    /\ selectedKnowledgePoints' = Append(selectedKnowledgePoints, kp)
    /\ calls' = touched
    /\ UNCHANGED <<provider, statistics, statsCall, searchResults, loading,
                   searchPerformed, selectedSubject, selectedTags,
                   results, toast>>

addKnowledgePoint(kp) ==
    /\ selectedKnowledgePoints' =
          IF ~includes(selectedKnowledgePoints, kp)
          THEN Append(selectedKnowledgePoints, kp)
          ELSE selectedKnowledgePoints
    /\ calls' = touched
    /\ UNCHANGED <<provider, statistics, statsCall, searchResults, loading,
                   searchPerformed, selectedSubject, selectedTags,
                   results, toast>>

removeKnowledgePoint(kp) ==
    /\ selectedKnowledgePoints' = filterNot(selectedKnowledgePoints, kp)
    /\ calls' = touched
    /\ UNCHANGED <<provider, statistics, statsCall, searchResults, loading,
                   searchPerformed, selectedSubject, selectedTags,
                   results, toast>>

addTag(tag) ==
    /\ selectedTags' =
          IF ~includes(selectedTags, tag)
          THEN Append(selectedTags, tag)
          ELSE selectedTags
    /\ calls' = touched
    /\ UNCHANGED <<provider, statistics, statsCall, searchResults, loading,
                   searchPerformed, selectedSubject, selectedKnowledgePoints,
                   results, toast>>

removeTag(tag) ==
    /\ selectedTags' = filterNot(selectedTags, tag)
    /\ calls' = touched
    /\ UNCHANGED <<provider, statistics, statsCall, searchResults, loading,
                   searchPerformed, selectedSubject, selectedKnowledgePoints,
                   results, toast>>

(* clearFilters that forgets the cached results. *)
clearFilters_KeepsResults ==
    /\ selectedSubject' = ""
    /\ selectedKnowledgePoints' = <<>>
    /\ selectedTags' = <<>>
    /\ searchPerformed' = FALSE
    /\ calls' = touched
    /\ UNCHANGED <<provider, statistics, statsCall, searchResults, loading,
                   results, toast>>

clearFilters ==
    /\ selectedSubject' = ""
    /\ selectedKnowledgePoints' = <<>>
    /\ selectedTags' = <<>>
    /\ searchResults' = <<>>
    /\ searchPerformed' = FALSE
    /\ calls' = touched
    /\ UNCHANGED <<provider, statistics, statsCall, loading, results, toast>>

(***************************************************************************)
(* performSearch: up to the await, and the two ways the await ends.        *)
(***************************************************************************)
performSearch ==
    /\ Len(calls) < MaxOutstanding
    /\ loading' = TRUE
    /\ searchPerformed' = TRUE
    /\ calls' = Append(calls, [filters |-> filters, pre |-> viewState,
                               userActed |-> FALSE])
    /\ UNCHANGED <<provider, statistics, statsCall, searchResults, facets, results,
                   toast>>

performSearchResolved(i, response) ==
    /\ i \in 1..Len(calls)
    /\ LET m == mapResults(response)
       IN  /\ searchResults' = m.out
           /\ results' = m.arg
           /\ toast' = Toast("success",
                  "found " \o ToString(Len(m.out)) \o " chats")
    /\ loading' = FALSE
    /\ calls' = [j \in 1..(Len(calls) - 1) |->
                    IF j < i THEN calls[j] ELSE calls[j + 1]]
    /\ UNCHANGED <<provider, statistics, statsCall, searchPerformed, facets>>

(* A catch branch that empties the results. *)
performSearchRejected_DropsResults(i) ==
    /\ i \in 1..Len(calls)
    /\ toast' = Toast("error", "search failed, please retry")
    /\ searchResults' = <<>>
    /\ loading' = FALSE
    /\ calls' = [j \in 1..(Len(calls) - 1) |->
                    IF j < i THEN calls[j] ELSE calls[j + 1]]
    /\ UNCHANGED <<provider, statistics, statsCall, searchPerformed,
                   facets, results>>

(* performSearch without its finally block on the failure path. *)
performSearchRejected_NoFinally(i) ==
    /\ i \in 1..Len(calls)
    /\ toast' = Toast("error", "search failed, please retry")
    /\ calls' = [j \in 1..(Len(calls) - 1) |->
                    IF j < i THEN calls[j] ELSE calls[j + 1]]
    /\ UNCHANGED <<provider, statistics, statsCall, searchResults, loading,
                   searchPerformed, facets, results>>

performSearchRejected(i) ==
    /\ i \in 1..Len(calls)
    /\ toast' = Toast("error", "search failed, please retry")
    /\ loading' = FALSE
    /\ calls' = [j \in 1..(Len(calls) - 1) |->
                    IF j < i THEN calls[j] ELSE calls[j + 1]]
    /\ UNCHANGED <<provider, statistics, statsCall, searchResults, searchPerformed,
                   facets, results>>

(***************************************************************************)
(* What the template lets the user trigger.                                *)
(***************************************************************************)
(* A search button that is not disabled while loading. *)
searchEnabled_NoLoading == Truthy(hasFilters)

searchEnabled == ~(loading \/ ~Truthy(hasFilters))

clearShown == Truthy(hasFilters)

SelectSubjectClick ==
    \E subject \in {""} \cup Range(statistics.subjects) :
        selectSubject(subject)

AddKnowledgePointClick ==
    \E kp \in Range(statistics.knowledge_points) : addKnowledgePoint(kp)

(* The chips offer the selected values only; removeKnowledgePoint and     *)
(* removeTag are also run on values that are not selected, where they      *)
(* change nothing, so that this case of the functions is exercised.        *)
RemoveKnowledgePointClick ==
    \E kp \in KnownKnowledgePoints : removeKnowledgePoint(kp)

AddTagClick == \E tag \in Range(statistics.tags) : addTag(tag)

RemoveTagClick == \E tag \in KnownTags : removeTag(tag)

SearchClick == searchEnabled /\ performSearch

ClearClick == clearShown /\ clearFilters

SearchResolves ==
    /\ provider = "responds"
    /\ \E i \in 1..Len(calls) : \E response \in SearchResponses :
           performSearchResolved(i, response)

SearchRejects == \E i \in 1..Len(calls) : performSearchRejected(i)

(***************************************************************************)
(* The summary modal.  Knowledge points and tags are typed by the user;    *)
(* a text is the sequence of its characters, so that trim() is computed.   *)
(***************************************************************************)

(* Cap on the summarizeChatById / updateChatSummaryById calls in flight. *)
MaxModalCalls == 2

(* Cap on the number of 'updated' events dispatched. *)
MaxUpdated == 1

SubjectOptions == {"", "Math", "Physics"}

KnowledgePointTexts == {<<" ", "a", " ">>, <<" ">>}

TagTexts == {<<"t">>}

NoSummary ==
    [present |-> FALSE, subject |-> "", knowledge_points |-> <<>>,
     summary |-> "", tags |-> <<>>]

SavedSummary ==
    [present |-> TRUE, subject |-> "Physics", knowledge_points |-> <<>>,
     summary |-> "saved", tags |-> << <<"t">> >>]

ExistingSummaries == {NoSummary, SavedSummary}

ChatIds == {"", "c1"}

SummarizeResponses ==
    {[subject |-> "Math", knowledge_points |-> << <<"a">> >>,
      summary |-> "generated"]}

RECURSIVE trimStart(_)
trimStart(text) ==
    IF text # <<>> /\ Head(text) = " " THEN trimStart(Tail(text)) ELSE text

RECURSIVE trimEnd(_)
trimEnd(text) ==
    IF text # <<>> /\ text[Len(text)] = " "
    THEN trimEnd(SubSeq(text, 1, Len(text) - 1))
    ELSE text

trim(text) == trimEnd(trimStart(text))

(* array.filter((_, i) => i !== index), index counted from 0 *)
filterIndex(s, index) ==
    [j \in 1..(Len(s) - (IF index + 1 \in 1..Len(s) THEN 1 ELSE 0)) |->
        IF j < index + 1 THEN s[j] ELSE s[j + 1]]

removeAt(s, i) == [j \in 1..(Len(s) - 1) |-> IF j < i THEN s[j] ELSE s[j + 1]]

ModalInit ==
    /\ show = FALSE
    /\ chatId = ""
    /\ existingSummary = NoSummary
    /\ modalLoading = FALSE
    /\ summaryData = [subject |-> "", knowledge_points |-> <<>>,
                      summary |-> "", tags |-> <<>>]
    /\ newKnowledgePoint = <<>>
    /\ newTag = <<>>
    /\ modalCalls = <<>>
    /\ updated = [count |-> 0, detail |-> NoSummary]

(* resetForm with the existingSummary given; x?.f || d is d when x is null *)
resetForm(existing) ==
    [subject |-> IF existing.present THEN existing.subject ELSE "",
     knowledge_points |->
        IF existing.present THEN existing.knowledge_points ELSE <<>>,
     summary |-> IF existing.present THEN existing.summary ELSE "",
     tags |-> IF existing.present THEN existing.tags ELSE <<>>]

(* The parent opens the modal for a chat: it sets the props and show; the  *)
(* reactive statement of line 109 then runs.                               *)
openModal(id, existing) ==
    /\ ~show
    /\ show' = TRUE
    /\ chatId' = id
    /\ existingSummary' = existing
    /\ summaryData' = IF existing.present THEN resetForm(existing)
                      ELSE summaryData
    /\ UNCHANGED <<modalCalls, modalLoading, newKnowledgePoint, newTag, updated>>

cancel ==
    /\ show' = FALSE
    /\ UNCHANGED <<modalCalls, chatId, existingSummary, modalLoading, summaryData,
                   newKnowledgePoint, newTag, updated>>

selectSummarySubject(subject) ==
    /\ summaryData' = [summaryData EXCEPT !.subject = subject]
    /\ UNCHANGED <<modalCalls, show, chatId, existingSummary, modalLoading,
                   newKnowledgePoint, newTag, updated>>

typeKnowledgePoint(text) ==
    /\ newKnowledgePoint' = text
    /\ UNCHANGED <<show, chatId, existingSummary, modalLoading, summaryData,
                   newTag, modalCalls, updated>>

typeTag(text) ==
    /\ newTag' = text
    /\ UNCHANGED <<show, chatId, existingSummary, modalLoading, summaryData,
                   newKnowledgePoint, modalCalls, updated>>

modalAddKnowledgePoint ==
    /\ IF /\ trim(newKnowledgePoint) # <<>>
          /\ ~includes(summaryData.knowledge_points, trim(newKnowledgePoint))
       THEN /\ summaryData' =
                 [summaryData EXCEPT !.knowledge_points =
                     Append(@, trim(newKnowledgePoint))]
            /\ newKnowledgePoint' = <<>>
       ELSE UNCHANGED <<summaryData, newKnowledgePoint>>
    /\ UNCHANGED <<modalCalls, show, chatId, existingSummary, modalLoading, newTag,
                   updated>>

modalRemoveKnowledgePoint(index) ==
    /\ summaryData' =
          [summaryData EXCEPT !.knowledge_points = filterIndex(@, index)]
    /\ UNCHANGED <<modalCalls, show, chatId, existingSummary, modalLoading,
                   newKnowledgePoint, newTag, updated>>

modalAddTag ==
    /\ IF /\ trim(newTag) # <<>>
          /\ ~includes(summaryData.tags, trim(newTag))
       THEN /\ summaryData' =
                 [summaryData EXCEPT !.tags = Append(@, trim(newTag))]
            /\ newTag' = <<>>
       ELSE UNCHANGED <<summaryData, newTag>>
    /\ UNCHANGED <<modalCalls, show, chatId, existingSummary, modalLoading,
                   newKnowledgePoint, updated>>

modalRemoveTag(index) ==
    /\ summaryData' = [summaryData EXCEPT !.tags = filterIndex(@, index)]
    /\ UNCHANGED <<modalCalls, show, chatId, existingSummary, modalLoading,
                   newKnowledgePoint, newTag, updated>>

(* generateSummary up to the await; without a chatId it returns at once. *)
generateSummary ==
    IF chatId = ""
    THEN UNCHANGED modalVars
    ELSE /\ Len(modalCalls) < MaxModalCalls
         /\ modalLoading' = TRUE
         /\ modalCalls' = Append(modalCalls,
               [kind |-> "summarize", sent |-> [chatId |-> chatId]])
         /\ UNCHANGED <<show, chatId, existingSummary, summaryData,
                        newKnowledgePoint, newTag, updated>>

generateSummaryResolved(i, result) ==
    /\ i \in 1..Len(modalCalls)
    /\ modalCalls[i].kind = "summarize"
    /\ summaryData' =
          [subject |-> result.subject,
           knowledge_points |-> result.knowledge_points,
           summary |-> result.summary,
           tags |-> IF existingSummary.present THEN existingSummary.tags
                    ELSE <<>>]
    /\ modalLoading' = FALSE
    /\ modalCalls' = removeAt(modalCalls, i)
    /\ UNCHANGED <<show, chatId, existingSummary, newKnowledgePoint, newTag,
                   updated>>

generateSummaryRejected(i) ==
    /\ i \in 1..Len(modalCalls)
    /\ modalCalls[i].kind = "summarize"
    /\ modalLoading' = FALSE
    /\ modalCalls' = removeAt(modalCalls, i)
    /\ UNCHANGED <<show, chatId, existingSummary, summaryData,
                   newKnowledgePoint, newTag, updated>>

(* saveSummary up to the await. *)
saveSummary ==
    IF chatId = ""
    THEN UNCHANGED modalVars
    ELSE /\ Len(modalCalls) < MaxModalCalls
         /\ updated.count < MaxUpdated
         /\ modalLoading' = TRUE
         /\ modalCalls' = Append(modalCalls,
               [kind |-> "update",
                sent |-> [chatId |-> chatId,
                          subject |-> summaryData.subject,
                          knowledge_points |-> summaryData.knowledge_points,
                          tags |-> summaryData.tags]])
         /\ UNCHANGED <<show, chatId, existingSummary, summaryData,
                        newKnowledgePoint, newTag, updated>>

(* A saveSummary success branch that forgets to dispatch. *)
saveSummaryResolved_NoDispatch(i) ==
    /\ i \in 1..Len(modalCalls)
    /\ modalCalls[i].kind = "update"
    /\ show' = FALSE
    /\ modalLoading' = FALSE
    /\ modalCalls' = removeAt(modalCalls, i)
    /\ UNCHANGED <<chatId, existingSummary, summaryData, newKnowledgePoint,
                   newTag, updated>>

saveSummaryResolved(i) ==
    /\ i \in 1..Len(modalCalls)
    /\ modalCalls[i].kind = "update"
    /\ updated' = [count |-> updated.count + 1, detail |-> summaryData]
    /\ show' = FALSE
    /\ modalLoading' = FALSE
    /\ modalCalls' = removeAt(modalCalls, i)
    /\ UNCHANGED <<chatId, existingSummary, summaryData, newKnowledgePoint,
                   newTag>>

saveSummaryRejected(i) ==
    /\ i \in 1..Len(modalCalls)
    /\ modalCalls[i].kind = "update"
    /\ modalLoading' = FALSE
    /\ modalCalls' = removeAt(modalCalls, i)
    /\ UNCHANGED <<show, chatId, existingSummary, summaryData,
                   newKnowledgePoint, newTag, updated>>

(* What the modal's template shows and enables. *)

(* An initial generate button shown also while loading. *)
generateShown_NoLoading == show /\ summaryData.subject = ""

generateShown == show /\ summaryData.subject = "" /\ ~modalLoading

formShown == show /\ ~(summaryData.subject = "" /\ ~modalLoading)

footerEnabled == show /\ summaryData.subject # "" /\ ~modalLoading

OpenModal ==
    \E id \in ChatIds : \E existing \in ExistingSummaries :
        openModal(id, existing)

CancelClick == show /\ cancel

SubjectChange ==
    formShown /\ \E subject \in SubjectOptions : selectSummarySubject(subject)

KnowledgePointInput ==
    formShown /\ \E text \in KnowledgePointTexts : typeKnowledgePoint(text)

TagInput == formShown /\ \E text \in TagTexts : typeTag(text)

ModalAddKnowledgePointClick == formShown /\ modalAddKnowledgePoint

ModalRemoveKnowledgePointClick ==
    /\ formShown
    /\ \E index \in 0..(Len(summaryData.knowledge_points) - 1) :
          modalRemoveKnowledgePoint(index)

ModalAddTagClick == formShown /\ modalAddTag

ModalRemoveTagClick ==
    /\ formShown
    /\ \E index \in 0..(Len(summaryData.tags) - 1) : modalRemoveTag(index)

GenerateClick == (generateShown \/ footerEnabled) /\ generateSummary

SaveClick == footerEnabled /\ saveSummary

GenerateResolves ==
    \E i \in 1..Len(modalCalls) : \E result \in SummarizeResponses :
        generateSummaryResolved(i, result)

GenerateRejects == \E i \in 1..Len(modalCalls) : generateSummaryRejected(i)

SaveResolves == \E i \in 1..Len(modalCalls) : saveSummaryResolved(i)

SaveRejects == \E i \in 1..Len(modalCalls) : saveSummaryRejected(i)

(***************************************************************************)
(* The mistake-book view.                                                  *)
(***************************************************************************)

(* Cap on the number of loadData calls issued, the one at mount included. *)
MaxLoads == 3

NoStats == [s \in {} |-> [mistakes |-> 0, total |-> 0]]

(* What getSubjectStatistics can answer: subject -> {mistakes, total}. *)
SubjectStatsResponses ==
    {NoStats,
     [s \in {"Math"} |-> [mistakes |-> 1, total |-> 0]],
     [s \in {"Math"} |-> [mistakes |-> 1, total |-> 3]],
     [s \in {"Math", "Physics"} |->
        IF s = "Math" THEN [mistakes |-> 1, total |-> 5]
        ELSE [mistakes |-> 1, total |-> 3]],
     [s \in {"Math"} |-> [mistakes |-> 2, total |-> 1]]}

(* getMistakeChats answers the chats of the backend's mistake book. *)
mistakeList(ids) ==
    (IF "c1" \in ids THEN <<Chat1>> ELSE <<>>) \o
    (IF "c2" \in ids THEN <<Chat2>> ELSE <<>>)

Unanswered == [answered |-> FALSE, mistakes |-> <<>>, stats |-> NoStats]

MistakeInit ==
    /\ mistakeChats = <<>>
    /\ subjectStats = NoStats
    /\ mistakeLoading = FALSE
    /\ mounted = FALSE
    /\ toggles = <<>>
    /\ loads = <<>>
    /\ issued = 0
    /\ serverMistakes = {"c1", "c2"}
    /\ newest = [seq |-> 0, resolved |-> FALSE, answer |-> Unanswered]

(* loadData up to its await of Promise.all: both requests leave together. *)
loadData ==
    /\ mistakeLoading' = TRUE
    /\ issued' = issued + 1
    /\ loads' = Append(loads, [seq |-> issued + 1, answer |-> Unanswered])
    /\ UNCHANGED <<mistakeChats, subjectStats>>

mistakeOnMount ==
    /\ ~mounted
    /\ mounted' = TRUE
    /\ loadData
    /\ UNCHANGED <<toggles, serverMistakes, newest>>

(* The backend answers the two requests of one loadData. *)
serverAnswers(i, stats) ==
    /\ i \in 1..Len(loads)
    /\ ~loads[i].answer.answered
    /\ loads' = [loads EXCEPT ![i].answer =
                    [answered |-> TRUE,
                     mistakes |-> mistakeList(serverMistakes),
                     stats |-> stats]]
    /\ UNCHANGED <<mistakeChats, subjectStats, mistakeLoading, mounted,
                   toggles, issued, serverMistakes, newest>>

loadDataResolved(i) ==
    /\ i \in 1..Len(loads)
    /\ loads[i].answer.answered
    /\ mistakeChats' = mapResults(loads[i].answer.mistakes).out
    /\ subjectStats' = loads[i].answer.stats
    /\ mistakeLoading' = FALSE
    /\ newest' = IF loads[i].seq = issued
                 THEN [seq |-> issued, resolved |-> TRUE,
                       answer |-> loads[i].answer]
                 ELSE newest
    /\ loads' = removeAt(loads, i)
    /\ UNCHANGED <<mounted, toggles, issued, serverMistakes>>

loadDataRejected(i) ==
    /\ i \in 1..Len(loads)
    /\ mistakeLoading' = FALSE
    /\ newest' = IF loads[i].seq = issued
                 THEN [seq |-> issued, resolved |-> FALSE,
                       answer |-> Unanswered]
                 ELSE newest
    /\ loads' = removeAt(loads, i)
    /\ UNCHANGED <<mistakeChats, subjectStats, mounted, toggles, issued,
                   serverMistakes>>

(* toggleMistake up to its first await. *)
toggleMistake(id) ==
    /\ issued + Len(toggles) < MaxLoads
    /\ toggles' = Append(toggles, id)
    /\ UNCHANGED <<mistakeChats, subjectStats, mistakeLoading, mounted,
                   loads, issued, serverMistakes, newest>>

(* toggleMistakeById succeeds: the backend has flipped the chat, and the   *)
(* handler goes on into loadData.                                          *)
toggleMistakeResolved(i) ==
    /\ i \in 1..Len(toggles)
    /\ serverMistakes' =
          IF toggles[i] \in serverMistakes
          THEN serverMistakes \ {toggles[i]}
          ELSE serverMistakes \cup {toggles[i]}
    /\ toggles' = removeAt(toggles, i)
    /\ loadData
    /\ UNCHANGED <<mounted, newest>>

toggleMistakeRejected(i) ==
    /\ i \in 1..Len(toggles)
    /\ toggles' = removeAt(toggles, i)
    /\ UNCHANGED <<mistakeChats, subjectStats, mistakeLoading, mounted,
                   loads, issued, serverMistakes, newest>>

(* Derived values of the statistics panel. *)
totalMistakes == Len(mistakeChats)

RECURSIVE sumTotals(_, _)
sumTotals(stats, subjects) ==
    IF subjects = {} THEN 0
    ELSE LET s == CHOOSE x \in subjects : TRUE
         IN  stats[s].total + sumTotals(stats, subjects \ {s})

statsTotal == sumTotals(subjectStats, DOMAIN subjectStats)

(* A rounding that truncates. *)
mathRound_Floor(n, d) == n \div d

(* Math.round(n / d) for d > 0: the nearest integer, halves upwards. *)
mathRound(n, d) == (2 * n + d) \div (2 * d)

(* (1 - totalMistakes / total) * 100 is 100 * (total - totalMistakes) /    *)
(* total, taken exactly.                                                   *)
overallAccuracy ==
    IF statsTotal > 0
    THEN mathRound(100 * (statsTotal - totalMistakes), statsTotal)
    ELSE 100

(* The remove buttons are in the list, which is rendered when not loading. *)
listShown == ~mistakeLoading /\ mistakeChats # <<>>

ToggleClick ==
    /\ listShown
    /\ \E k \in 1..Len(mistakeChats) : toggleMistake(mistakeChats[k].id)

ServerAnswers ==
    \E i \in 1..Len(loads) : \E stats \in SubjectStatsResponses :
        serverAnswers(i, stats)

LoadResolves == \E i \in 1..Len(loads) : loadDataResolved(i)

LoadRejects == \E i \in 1..Len(loads) : loadDataRejected(i)

ToggleResolves == \E i \in 1..Len(toggles) : toggleMistakeResolved(i)

ToggleRejects == \E i \in 1..Len(toggles) : toggleMistakeRejected(i)

(***************************************************************************)
(* The three views are separate components; each specification runs one   *)
(* of them and leaves the others in their initial state.                   *)
(***************************************************************************)
Init == SearchInit /\ ModalInit /\ MistakeInit

outsideSearch == <<modalVars, mistakeVars>>
outsideModal == <<searchVars, mistakeVars>>
outsideMistake == <<searchVars, modalVars>>

Next ==
    \/ onMount /\ UNCHANGED outsideSearch
    \/ loadStatisticsResolved /\ UNCHANGED outsideSearch
    \/ loadStatisticsRejected /\ UNCHANGED outsideSearch
    \/ SelectSubjectClick /\ UNCHANGED outsideSearch
    \/ AddKnowledgePointClick /\ UNCHANGED outsideSearch
    \/ RemoveKnowledgePointClick /\ UNCHANGED outsideSearch
    \/ AddTagClick /\ UNCHANGED outsideSearch
    \/ RemoveTagClick /\ UNCHANGED outsideSearch
    \/ SearchClick /\ UNCHANGED outsideSearch
    \/ ClearClick /\ UNCHANGED outsideSearch
    \/ SearchResolves /\ UNCHANGED outsideSearch
    \/ SearchRejects /\ UNCHANGED outsideSearch

ModalStep ==
    \/ OpenModal /\ UNCHANGED outsideModal
    \/ CancelClick /\ UNCHANGED outsideModal
    \/ SubjectChange /\ UNCHANGED outsideModal
    \/ KnowledgePointInput /\ UNCHANGED outsideModal
    \/ TagInput /\ UNCHANGED outsideModal
    \/ ModalAddKnowledgePointClick /\ UNCHANGED outsideModal
    \/ ModalRemoveKnowledgePointClick /\ UNCHANGED outsideModal
    \/ ModalAddTagClick /\ UNCHANGED outsideModal
    \/ ModalRemoveTagClick /\ UNCHANGED outsideModal
    \/ GenerateClick /\ UNCHANGED outsideModal
    \/ SaveClick /\ UNCHANGED outsideModal
    \/ GenerateResolves /\ UNCHANGED outsideModal
    \/ GenerateRejects /\ UNCHANGED outsideModal
    \/ SaveResolves /\ UNCHANGED outsideModal
    \/ SaveRejects /\ UNCHANGED outsideModal

MistakeStep ==
    \/ mistakeOnMount /\ UNCHANGED outsideMistake
    \/ ToggleClick /\ UNCHANGED outsideMistake
    \/ ServerAnswers /\ UNCHANGED outsideMistake
    \/ LoadResolves /\ UNCHANGED outsideMistake
    \/ LoadRejects /\ UNCHANGED outsideMistake
    \/ ToggleResolves /\ UNCHANGED outsideMistake
    \/ ToggleRejects /\ UNCHANGED outsideMistake

Spec == Init /\ [][Next]_vars

ModalSpec == Init /\ [][ModalStep]_vars

MistakeSpec == Init /\ [][MistakeStep]_vars

(* The provider eventually settles every call it was handed. *)
LiveSpec ==
    Spec /\ WF_vars((SearchResolves \/ SearchRejects)
                      /\ UNCHANGED outsideSearch)

(***************************************************************************)
(* Properties.                                                             *)
(***************************************************************************)

(* C1: the selected knowledge points and the selected tags never hold a    *)
(* value twice; an add makes the held values the old ones plus the added   *)
(* one, a remove makes them the old ones minus the removed one (so from    *)
(* the empty selection the list holds exactly the values added and not     *)
(* removed since); adding a held value and removing a value not held       *)
(* leave the list as it was.                                               *)
C1_AddStep(list, listNew, v) ==
    /\ Range(listNew) = Range(list) \cup {v}
    /\ v \in Range(list) => listNew = list

C1_RemoveStep(list, listNew, v) ==
    /\ Range(listNew) = Range(list) \ {v}
    /\ v \notin Range(list) => listNew = list

C1_SelectionIsSetOfAdded ==
    /\ [](NoDuplicates(selectedKnowledgePoints) /\ NoDuplicates(selectedTags))
    /\ [][/\ \A kp \in KnownKnowledgePoints :
               /\ addKnowledgePoint(kp) =>
                    C1_AddStep(selectedKnowledgePoints,
                               selectedKnowledgePoints', kp)
               /\ removeKnowledgePoint(kp) =>
                    C1_RemoveStep(selectedKnowledgePoints,
                                  selectedKnowledgePoints', kp)
          /\ \A tag \in KnownTags :
               /\ addTag(tag) =>
                    C1_AddStep(selectedTags, selectedTags', tag)
               /\ removeTag(tag) =>
                    C1_RemoveStep(selectedTags, selectedTags', tag)]_vars

(* Both knowledge points selected, in the order opposite to the choice     *)
(* list, and a tag selected.                                               *)
C1_Witness ==
    /\ selectedKnowledgePoints = <<"Geometry", "Algebra">>
    /\ Len(selectedTags) > 0

(* C2: hasFilters is truthy exactly when the filters object performSearch  *)
(* would build from the current selections has a key.                      *)
C2_HasFiltersIffCriteria == Truthy(hasFilters) <=> DOMAIN filters # {}

(* Only a tag is selected. *)
C2_Witness ==
    /\ selectedSubject = ""
    /\ selectedKnowledgePoints = <<>>
    /\ selectedTags # <<>>
    /\ Truthy(hasFilters)

(* C3: the filters handed to searchChatsByMetadata have a key for a facet  *)
(* exactly when the facet is non-empty when the search is issued, and the  *)
(* key carries the facet's value at that moment; subject Math with the     *)
(* knowledge point Algebra and no tag gives subject and knowledge_points   *)
(* only.                                                                   *)
C3_CriteriaOmitEmptyFacets ==
    [][Len(calls') = Len(calls) + 1 =>
        LET c == calls'[Len(calls')].filters
        IN  /\ "subject" \in DOMAIN c <=> selectedSubject # ""
            /\ "knowledge_points" \in DOMAIN c <=>
                   selectedKnowledgePoints # <<>>
            /\ "tags" \in DOMAIN c <=> selectedTags # <<>>
            /\ DOMAIN c \subseteq {"subject", "knowledge_points", "tags"}
            /\ "subject" \in DOMAIN c => c["subject"] = selectedSubject
            /\ "knowledge_points" \in DOMAIN c =>
                   c["knowledge_points"] = selectedKnowledgePoints
            /\ "tags" \in DOMAIN c => c["tags"] = selectedTags
            /\ (/\ selectedSubject = "Math"
                /\ selectedKnowledgePoints = <<"Algebra">>
                /\ selectedTags = <<>>)
               => c = [subject |-> "Math",
                       knowledge_points |-> <<"Algebra">>]]_vars

(* A call is outstanding whose filters are those of the example. *)
C3_Witness ==
    \E i \in 1..Len(calls) :
        calls[i].filters = [subject |-> "Math",
                            knowledge_points |-> <<"Algebra">>]

(* C4: right after clearFilters the subject is empty, no knowledge point   *)
(* and no tag is selected, the cached results are empty, searchPerformed   *)
(* is false and the filters built from that state have no key.             *)
C4_ClearResetsEverything ==
    [][clearFilters =>
        /\ selectedSubject' = ""
        /\ selectedKnowledgePoints' = <<>>
        /\ selectedTags' = <<>>
        /\ searchResults' = <<>>
        /\ searchPerformed' = FALSE
        /\ filters' = EmptyFilters]_vars

(* The last response was not empty and the cache is: only clearFilters     *)
(* leads here.                                                             *)
C4_Witness ==
    /\ results # <<>>
    /\ searchResults = <<>>
    /\ ~searchPerformed
    /\ facets = <<"", <<>>, <<>>>>

(* C5: a rejected search leaves searchResults as it was and raises the     *)
(* search-failed notification; with a provider that rejects every call     *)
(* searchResults keeps its initial value, the empty list.                  *)
C5_RejectKeepsResults ==
    /\ [](provider = "alwaysRejects" => searchResults = <<>>)
    /\ [][\A i \in 1..Len(calls) :
            performSearchRejected(i) =>
                /\ searchResults' = searchResults
                /\ toast' = Toast("error", "search failed, please retry")]_vars

(* A search has failed while results of an earlier search were cached. *)
C5_Witness ==
    /\ toast = Toast("error", "search failed, please retry")
    /\ searchResults # <<>>
    /\ calls = <<>>

(* C6: performSearch takes the view from not loading to loading, loading   *)
(* is true only while a call is outstanding, and every loading state is    *)
(* followed by one that is not loading.                                    *)
C6_SearchingReturnsToIdle ==
    /\ [][performSearch => ~loading /\ loading']_vars
    /\ [](loading => calls # <<>>)
    /\ (loading ~> ~loading)

(* Back to idle after a search that was performed. *)
C6_Witness == ~loading /\ searchPerformed /\ calls = <<>>

(* C7: at most one searchChatsByMetadata call is outstanding. *)
C7_SingleFlight == Len(calls) <= 1

C7_Witness == Len(calls) = 1 /\ loading

(* C8: while loading, only the completion of the outstanding search        *)
(* changes searchResults.                                                  *)
C8_ResultsFrozenWhileLoading ==
    [][(loading /\ searchResults' # searchResults) =>
          Len(calls') < Len(calls)]_vars

(* C9: when the call resolves, searchResults becomes the response, same    *)
(* length and order, every element the response's record plus time_range   *)
(* = getTimeRange(updated_at); the response's records are as they were.    *)
C9_ResultsAreAnnotatedResponse ==
    [][\A i \in 1..Len(calls) : \A response \in SearchResponses :
          performSearchResolved(i, response) =>
              /\ Len(searchResults') = Len(response)
              /\ \A k \in 1..Len(response) :
                    /\ DOMAIN searchResults'[k] =
                          DOMAIN response[k] \cup {"time_range"}
                    /\ \A f \in DOMAIN response[k] :
                          searchResults'[k][f] = response[k][f]
                    /\ searchResults'[k]["time_range"] =
                          getTimeRange(response[k].updated_at)
              /\ results' = response]_vars

(* The two-record response is cached in its order; c1 is three days old. *)
C9_Witness ==
    /\ results = <<Chat2, Chat1>>
    /\ Len(searchResults) = 2
    /\ searchResults[1].id = "c2"
    /\ searchResults[2] = [id |-> "c1", updated_at |-> 1700000000,
                           time_range |-> "3 days ago"]

(* C10: after a rejected search is handled, with no user action since it   *)
(* was issued, the view's state is the state before the call.              *)
C10_RejectRestoresPreCallState ==
    [][\A i \in 1..Len(calls) :
          (performSearchRejected(i) /\ ~calls[i].userActed) =>
              viewState' = calls[i].pre]_vars

(* C11: getChatStatistics is called once, at mount; when the call rejects  *)
(* the choice lists stay empty and total_chats stays 0, nothing but the    *)
(* notification changes, and afterwards a facet value can still be chosen  *)
(* or a search issued.                                                     *)
statisticsFailed == statsCall = "done" /\ statistics # StatsResponse

facetSelectable ==
    \/ statistics.subjects # <<>>
    \/ statistics.knowledge_points # <<>>
    \/ statistics.tags # <<>>

C11_StatisticsFailureNonFatal ==
    /\ [][statsCall' # statsCall =>
            \/ statsCall = "none" /\ onMount
            \/ statsCall = "pending" /\ statsCall' = "done"]_vars
    /\ [][loadStatisticsRejected =>
            /\ statistics' = [subjects |-> <<>>, knowledge_points |-> <<>>,
                              tags |-> <<>>, total_chats |-> 0]
            /\ ~loading' /\ calls' = <<>>
            /\ UNCHANGED <<searchResults, searchPerformed, facets>>]_vars
    /\ [](statisticsFailed => facetSelectable \/ searchEnabled)

(* C12: a saveSummary whose update call succeeds dispatches exactly one    *)
(* 'updated' event and closes the modal; one whose call rejects dispatches *)
(* none, leaves show and summaryData as they are, and ends with loading    *)
(* false, so that the save button is enabled again whenever the modal is   *)
(* open with a subject.                                                    *)
C12_SaveOutcome ==
    [][\A i \in 1..Len(modalCalls) :
          /\ saveSummaryResolved(i) =>
                /\ updated'.count = updated.count + 1
                /\ ~show'
                /\ ~modalLoading'
          /\ saveSummaryRejected(i) =>
                /\ updated' = updated
                /\ show' = show
                /\ summaryData' = summaryData
                /\ ~modalLoading'
                /\ (show /\ summaryData.subject # "") => footerEnabled']_vars

(* A save has succeeded: one event, modal closed, nothing outstanding. *)
C12_Witness ==
    /\ updated.count = 1
    /\ ~show
    /\ modalCalls = <<>>
    /\ ~modalLoading

(* C13: at most one summarizeChatById / updateChatSummaryById call is      *)
(* outstanding in the modal.                                               *)
C13_ModalSingleFlight == Len(modalCalls) <= 1

(* A call is pending for the chat the modal was opened for before it was   *)
(* cancelled and reopened for another.                                     *)
C13_Witness ==
    /\ show
    /\ Len(modalCalls) = 1
    /\ modalCalls[1].sent.chatId # chatId
    /\ modalLoading

(* C16: the summaryData carried by the 'updated' event of a successful     *)
(* save has the subject, knowledge_points and tags that this save sent to  *)
(* updateChatSummaryById.                                                  *)
C16_EventMatchesSent ==
    [][\A i \in 1..Len(modalCalls) :
          saveSummaryResolved(i) =>
              /\ updated'.detail.subject = modalCalls[i].sent.subject
              /\ updated'.detail.knowledge_points =
                     modalCalls[i].sent.knowledge_points
              /\ updated'.detail.tags = modalCalls[i].sent.tags]_vars

(* C14: the overall accuracy shown is 100 when the totals of all subjects  *)
(* sum to zero, whatever the number of mistake chats loaded, and otherwise *)
(* the integer nearest to (1 - totalMistakes / total) * 100, halves going  *)
(* up.                                                                     *)
C14_OverallAccuracy ==
    /\ statsTotal = 0 => overallAccuracy = 100
    /\ statsTotal # 0 =>
          LET twice == 200 * (statsTotal - totalMistakes)
          IN  /\ (2 * overallAccuracy - 1) * statsTotal <= twice
              /\ twice < (2 * overallAccuracy + 1) * statsTotal

(* Two mistake chats are loaded and the only subject has a total of zero. *)
C14_Witness ==
    /\ totalMistakes = 2
    /\ DOMAIN subjectStats # {}
    /\ statsTotal = 0

(* C15: loading is true while a loadData call is outstanding, and once no  *)
(* call is outstanding mistakeChats and subjectStats are the response of   *)
(* the loadData call issued last.                                          *)
C15_LoadingCoversLoads == loads # <<>> => mistakeLoading

C15_NewestResponseShown ==
    (/\ loads = <<>>
     /\ toggles = <<>>
     /\ newest.seq = issued
     /\ newest.resolved)
    => /\ mistakeChats = mapResults(newest.answer.mistakes).out
       /\ subjectStats = newest.answer.stats

C15_OverlappingReloads == C15_NewestResponseShown /\ C15_LoadingCoversLoads

====
